---- MODULE Spec2Model ----
(***************************************************************************)
(* Consistent hashing with bounded loads: the ConsistentHash ring of       *)
(* core/algorithm.go (hosts, virtual nodes, the sorted hash ring, the load *)
(* counters and the RWMutex that guards them).                             *)
(*                                                                         *)
(* Strings are sequences of one-character strings, so that the virtual     *)
(* node name fmt.Sprintf("%s%d", address, i) is a real concatenation and   *)
(* hashFunc is computed from the characters of its argument.               *)
(***************************************************************************)
EXTENDS Integers, Sequences, FiniteSets, TLC

VARIABLES
    replicaNum,         \* ch.replicaNum
    hashFunc,           \* ch.hashFunc: the parameters of the hash function in use
    totalLoad,          \* ch.totalLoad
    hostMap,            \* ch.hostMap: address -> Host.LoadBound
    replicaHostMap,     \* ch.replicaHostMap: ring position -> address
    sortedHostHashSet,  \* ch.sortedHostHashSet: the ring, a sequence of positions
    mu,                 \* ch.mu: the state of the sync.RWMutex
    last,               \* the most recent call that ended: operation, argument, outcome
    pc,                 \* per goroutine: the step of the call it is executing
    frame,              \* per goroutine: the locals of the call it is executing
    calls,              \* the number of calls the goroutines have started
    netLoad             \* per registered host: the IncLoad calls minus the DecLoad
                        \* calls that have returned since it was registered

vars == <<replicaNum, hashFunc, totalLoad, hostMap, replicaHostMap,
          sortedHostHashSet, mu, last, pc, frame, calls, netLoad>>

ring == <<replicaNum, hashFunc, totalLoad, hostMap, replicaHostMap, sortedHostHashSet>>

-----------------------------------------------------------------------------
(* Bounds of the model *)

\* the ring is constructed with replicaNum 1 or MaxReplicaNum
MaxReplicaNum == 2
\* IncLoad is not called on a host whose LoadBound has reached MaxLoadBound
MaxLoadBound == 2
\* DecLoad is not called on a host whose LoadBound has reached -MaxDeficit
MaxDeficit == 1
\* no further read lock is taken once MaxReaders are held
MaxReaders == 2
\* IncLoad and DecLoad are not called once totalLoad has reached
\* MaxTotalLoad or -MaxTotalLoad
MaxTotalLoad == 3
\* the goroutines of the concurrent specification start MaxCalls calls in all
MaxCalls == 3
\* hash values are the naturals below HashSpace (the code's are below 2^64;
\* ring positions are only ever compared, never added)
HashSpace == 29

\* the addresses the callers register, unregister and report load for
Addresses == {<<"a">>, <<"b">>, <<"c">>}
\* the keys the callers look up; <<"a", "0">> is also the name of a virtual node
Keys == {<<"k">>, <<"z">>, <<"a", "0">>}

-----------------------------------------------------------------------------
(* Strings, formatting and hashing *)

Digits == <<"0", "1", "2", "3", "4", "5", "6", "7", "8", "9">>

\* the %d verb: the decimal digits of a non-negative int
RECURSIVE FormatInt(_)
FormatInt(i) ==
    IF i < 10 THEN <<Digits[i + 1]>>
    ELSE FormatInt(i \div 10) \o <<Digits[(i % 10) + 1]>>

\* fmt.Sprintf(hostReplicaFormat, address, i) with hostReplicaFormat = "%s%d"
hostReplicaFormat(address, i) == address \o FormatInt(i)

CharCode ==
    [ch \in {"a", "b", "c", "k", "z"} \cup {Digits[d] : d \in 1..10} |->
        CASE ch = "a" -> 1 [] ch = "b" -> 2 [] ch = "c" -> 3
          [] ch = "k" -> 4 [] ch = "z" -> 5
          [] OTHER -> 5 + (CHOOSE d \in 1..10 : Digits[d] = ch)]

\* a hash function func(key string) uint64 given to NewConsistent: a
\* polynomial hash of the squared character codes, reduced to the hash
\* space (the squares spread the virtual nodes of one host over the ring)
RECURSIVE HashFrom(_, _, _)
HashFrom(h, mult, key) ==
    IF key = <<>> THEN h
    ELSE HashFrom((h * mult + CharCode[Head(key)] * CharCode[Head(key)]) % HashSpace,
                  mult, Tail(key))

ApplyHash(f, key) == HashFrom(f.seed, f.mult, key)

\* every string the program hashes in this model
HashedStrings ==
    Keys \cup {hostReplicaFormat(a, i) : a \in Addresses, i \in 0..(MaxReplicaNum - 1)}

\* a collision-free hash function: distinct strings have distinct hashes
CollisionFree(f) ==
    \A s, t \in HashedStrings : ApplyHash(f, s) = ApplyHash(f, t) => s = t

\* the hash functions a ring is constructed with
HashFuncs ==
    {f \in [seed : {0, 2}, mult : {7, 13}] : CollisionFree(f)}

-----------------------------------------------------------------------------
(* Library routines, indexed from 0 as in the code *)

At(s, i) == s[i + 1]

\* int64 division truncates towards zero
GoDiv(x, y) ==
    IF x >= 0 THEN x \div y ELSE -((-x) \div y)

\* math.Ceil(avg * (1 + loadBoundFactor)) for an integral avg >= 0,
\* loadBoundFactor = 0.25: the ceiling of 5 * avg / 4
CeilTimesFactor(avg) == (5 * avg + 3) \div 4

\* sort.Slice with the less function s[i] < s[j]: an insertion sort
RECURSIVE InsertSorted(_, _)
InsertSorted(s, x) ==
    IF s = <<>> THEN <<x>>
    ELSE IF x < Head(s) THEN <<x>> \o s
    ELSE <<Head(s)>> \o InsertSorted(Tail(s), x)

\* fault: the less function reversed (s[i] > s[j]), a descending ring
RECURSIVE SortSliceDescending(_)
SortSliceDescending(s) ==
    IF s = <<>> THEN <<>>
    ELSE LET rest == SortSliceDescending(Tail(s))
             n == Cardinality({j \in 1..Len(rest) : rest[j] > Head(s)})
         IN  SubSeq(rest, 1, n) \o <<Head(s)>> \o SubSeq(rest, n + 1, Len(rest))

RECURSIVE SortSlice(_)
SortSlice(s) ==
    IF s = <<>> THEN <<>>
    ELSE InsertSorted(SortSlice(Tail(s)), Head(s))

\* fault: the predicate s[i] > key instead of s[i] >= key
RECURSIVE SortSearchStrict(_, _, _, _)
SortSearchStrict(s, key, i, j) ==
    IF i < j
    THEN LET h == (i + j) \div 2
         IN  IF ~(At(s, h) > key)
             THEN SortSearchStrict(s, key, h + 1, j)
             ELSE SortSearchStrict(s, key, i, h)
    ELSE i

\* sort.Search(n, func(i) bool { return s[i] >= key }): the binary search
\* of the standard library, on the half-open interval [i, j)
RECURSIVE SortSearch(_, _, _, _)
SortSearch(s, key, i, j) ==
    IF i < j
    THEN LET h == (i + j) \div 2
         IN  IF ~(At(s, h) >= key)
             THEN SortSearch(s, key, h + 1, j)
             ELSE SortSearch(s, key, i, h)
    ELSE i

-----------------------------------------------------------------------------
(* Maps *)

EmptyMap == [x \in {} |-> 0]

MapPut(m, k, v) == [x \in (DOMAIN m) \cup {k} |-> IF x = k THEN v ELSE m[x]]

MapDelete(m, k) == [x \in (DOMAIN m) \ {k} |-> m[x]]

\* a read of a map[uint64]string: the zero value "" for a missing key
MapGetString(m, k) == IF k \in DOMAIN m THEN m[k] ELSE <<>>

-----------------------------------------------------------------------------
(* The ring's internal routines *)

\* ch.hashFunc(key)
Hash(key) == ApplyHash(hashFunc, key)

\* searchIndex: the index of the first position >= key, 0 when there is none
searchIndex(s, key) ==
    LET idx == SortSearch(s, key, 0, Len(s))
    IN  IF idx >= Len(s) THEN 0 ELSE idx

\* the binary search loop of delHashIndex: the index of val, or -1
RECURSIVE delHashIndexLoop(_, _, _, _)
delHashIndexLoop(s, val, l, r) ==
    IF l <= r
    THEN LET m == (l + r) \div 2
         IN  IF At(s, m) = val THEN m
             ELSE IF At(s, m) < val
                  THEN delHashIndexLoop(s, val, m + 1, r)
                  ELSE delHashIndexLoop(s, val, l, m - 1)
    ELSE -1

\* fault: the element after the one found is removed
delHashIndexOffByOne(s, val) ==
    LET idx == delHashIndexLoop(s, val, 0, Len(s) - 1)
    IN  IF idx # -1
        THEN SubSeq(s, 1, idx + 1) \o SubSeq(s, idx + 3, Len(s))
        ELSE s

\* delHashIndex: the ring without val
delHashIndex(s, val) ==
    LET idx == delHashIndexLoop(s, val, 0, Len(s) - 1)
    IN  IF idx # -1
        THEN SubSeq(s, 1, idx) \o SubSeq(s, idx + 2, Len(s))
        ELSE s

\* one iteration of RegisterHost's loop, on the pair (replicaHostMap, ring)
addReplica(r, address, i) ==
    LET hashedIdx == Hash(hostReplicaFormat(address, i))
    IN  [map |-> MapPut(r.map, hashedIdx, address),
         seq |-> Append(r.seq, hashedIdx)]

RECURSIVE addReplicas(_, _, _)
addReplicas(r, address, i) ==
    IF i < replicaNum
    THEN addReplicas(addReplica(r, address, i), address, i + 1)
    ELSE r

\* fault: the loop of UnregisterHost leaves the position in replicaHostMap
delReplicaKeepMap(r, address, i) ==
    LET hashedIdx == Hash(hostReplicaFormat(address, i))
    IN  [map |-> r.map,
         seq |-> delHashIndex(r.seq, hashedIdx)]

\* one iteration of UnregisterHost's loop, on the pair (replicaHostMap, ring)
delReplica(r, address, i) ==
    LET hashedIdx == Hash(hostReplicaFormat(address, i))
    IN  [map |-> MapDelete(r.map, hashedIdx),
         seq |-> delHashIndex(r.seq, hashedIdx)]

\* fault: the loop of UnregisterHost stops one virtual node early
RECURSIVE delReplicasButLast(_, _, _)
delReplicasButLast(r, address, i) ==
    IF i < replicaNum - 1
    THEN delReplicasButLast(delReplica(r, address, i), address, i + 1)
    ELSE r

RECURSIVE delReplicas(_, _, _)
delReplicas(r, address, i) ==
    IF i < replicaNum
    THEN delReplicas(delReplica(r, address, i), address, i + 1)
    ELSE r

\* checkLoadCapacity's write: a negative totalLoad is reset to 0
clampTotalLoad(t) == IF t < 0 THEN 0 ELSE t

\* checkLoadCapacity's ceiling for the (already reset) totalLoad t and n hosts
loadCeiling(t, n) ==
    LET avgLoadPerNode == GoDiv(t + 1, n)
    IN  CeilTimesFactor(IF avgLoadPerNode = 0 THEN 1 ELSE avgLoadPerNode)

\* checkLoadCapacity(address) with totalLoad t and the hosts hm:
\* "panic" (integer division by zero), "ErrHostNotFound", "true" or "false"
checkLoadCapacity(t, hm, address) ==
    IF Cardinality(DOMAIN hm) = 0 THEN "panic"
    ELSE IF address \notin DOMAIN hm THEN "ErrHostNotFound"
    ELSE IF hm[address] + 1 <= loadCeiling(clampTotalLoad(t), Cardinality(DOMAIN hm))
         THEN "true" ELSE "false"

\* fault: the probe loop advances by two positions
RECURSIVE probeByTwo(_, _, _, _, _, _)
probeByTwo(t, hm, rm, seq, i, n) ==
    IF n > Len(seq) + Cardinality(DOMAIN rm) THEN [out |-> "loops", ret |-> <<>>]
    ELSE IF i >= Len(seq) THEN [out |-> "panic", ret |-> <<>>]
    ELSE LET address == MapGetString(rm, At(seq, i))
             loadChecked == checkLoadCapacity(t, hm, address)
             next == IF i + 2 >= Cardinality(DOMAIN rm) THEN 0 ELSE i + 2
         IN  CASE loadChecked = "panic" -> [out |-> "panic", ret |-> <<>>]
               [] loadChecked = "ErrHostNotFound" ->
                      [out |-> "ErrHostNotFound", ret |-> <<>>]
               [] loadChecked = "true" -> [out |-> "ok", ret |-> address]
               [] OTHER -> probeByTwo(t, hm, rm, seq, next, n + 1)

\* the probe loop of GetHostByKeyLeast from index i, n iterations after its
\* start.  Nothing the loop reads changes while it runs, and i runs through
\* at most Len(seq) indices before it first wraps and then cycles through
\* len(replicaHostMap) of them: an iteration beyond that many repeats an
\* earlier one, so the loop never ends.
RECURSIVE probe(_, _, _, _, _, _)
probe(t, hm, rm, seq, i, n) ==
    IF n > Len(seq) + Cardinality(DOMAIN rm) THEN [out |-> "loops", ret |-> <<>>]
    ELSE IF i >= Len(seq) THEN [out |-> "panic", ret |-> <<>>]
    ELSE LET address == MapGetString(rm, At(seq, i))
             loadChecked == checkLoadCapacity(t, hm, address)
             next == IF i + 1 >= Cardinality(DOMAIN rm) THEN 0 ELSE i + 1
         IN  CASE loadChecked = "panic" -> [out |-> "panic", ret |-> <<>>]
               [] loadChecked = "ErrHostNotFound" ->
                      [out |-> "ErrHostNotFound", ret |-> <<>>]
               [] loadChecked = "true" -> [out |-> "ok", ret |-> address]
               [] OTHER -> probe(t, hm, rm, seq, next, n + 1)

\* MaxLoad's write: a totalLoad of 0 is set to 1
bumpTotalLoad(t) == IF t = 0 THEN 1 ELSE t

\* MaxLoad's result for the (already set) totalLoad t and n > 0 hosts
maxLoadValue(t, n) ==
    LET avgLoadPerNode == GoDiv(t, n)
    IN  IF avgLoadPerNode = 0 THEN CeilTimesFactor(1)
        ELSE IF avgLoadPerNode > 0 THEN CeilTimesFactor(avgLoadPerNode)
        ELSE -((5 * (-avgLoadPerNode)) \div 4)

-----------------------------------------------------------------------------
(* The state after NewConsistent(replicaNum, hashFunc) *)

\* the goroutines that call into the ring
Threads == {"t1", "t2"}

NoFrame == [op |-> "none"]

\* the record of a call that ended: out is "ok" (a nil error or a plain
\* return), "ErrHostAlreadyExists", "ErrHostNotFound", "panic" (a run-time
\* panic), "blocked" (the call waits for ch.mu for ever) or "loops" (the call
\* never leaves its loop)
Ended(op, arg, out, ret, num, loads) ==
    [op |-> op, arg |-> arg, out |-> out, ret |-> ret, num |-> num, loads |-> loads]

Init ==
    /\ replicaNum \in {1, MaxReplicaNum}
    /\ hashFunc \in HashFuncs
    /\ totalLoad = 0
    /\ hostMap = EmptyMap
    /\ replicaHostMap = EmptyMap
    /\ sortedHostHashSet = <<>>
    /\ mu = [readers |-> 0, writer |-> FALSE]
    /\ last = Ended("NewConsistent", <<>>, "ok", <<>>, 0, EmptyMap)
    /\ pc = [t \in Threads |-> "idle"]
    /\ frame = [t \in Threads |-> NoFrame]
    /\ calls = 0
    /\ netLoad = hostMap

-----------------------------------------------------------------------------
(* ch.mu, a sync.RWMutex: readers counts the read locks held; writer says   *)
(* that a writer holds the lock or has announced itself and waits for the   *)
(* readers to leave, which keeps new readers out                            *)

\* Lock() returns: no writer, no reader
CanLock == ~mu.writer /\ mu.readers = 0

\* RLock() returns: no writer holds or awaits the lock
CanRLock == ~mu.writer

\* a Lock() that does not return: the writer announces itself if it can
LockBlocked == IF mu.writer THEN mu ELSE [mu EXCEPT !.writer = TRUE]

-----------------------------------------------------------------------------
(* The exported operations, each a whole call made while no other call is   *)
(* in progress                                                              *)

Quiescent == \A t \in Threads : pc[t] = "idle"

\* fault: RegisterHost without the test of ch.hostMap
RegisterHostUnchecked(address) ==
    /\ Quiescent
    /\ IF ~CanLock
       THEN /\ mu' = LockBlocked
            /\ last' = Ended("RegisterHost", address, "blocked", <<>>, 0, EmptyMap)
            /\ UNCHANGED <<ring, netLoad>>
       ELSE LET r == addReplicas([map |-> replicaHostMap, seq |-> sortedHostHashSet],
                                 address, 0)
            IN  /\ hostMap' = MapPut(hostMap, address, 0)
                /\ replicaHostMap' = r.map
                /\ sortedHostHashSet' = SortSlice(r.seq)
                /\ last' = Ended("RegisterHost", address, "ok", <<>>, 0, EmptyMap)
                /\ netLoad' = MapPut(netLoad, address, 0)
                /\ UNCHANGED <<replicaNum, hashFunc, totalLoad, mu>>
    /\ UNCHANGED <<pc, frame, calls>>

RegisterHost(address) ==
    /\ Quiescent
    /\ IF ~CanLock
       THEN /\ mu' = LockBlocked
            /\ last' = Ended("RegisterHost", address, "blocked", <<>>, 0, EmptyMap)
            /\ UNCHANGED <<ring, netLoad>>
       ELSE IF address \in DOMAIN hostMap
       THEN /\ last' = Ended("RegisterHost", address, "ErrHostAlreadyExists",
                             <<>>, 0, EmptyMap)
            /\ UNCHANGED <<ring, mu, netLoad>>
       ELSE LET r == addReplicas([map |-> replicaHostMap, seq |-> sortedHostHashSet],
                                 address, 0)
            IN  /\ hostMap' = MapPut(hostMap, address, 0)
                /\ replicaHostMap' = r.map
                /\ sortedHostHashSet' = SortSlice(r.seq)
                /\ last' = Ended("RegisterHost", address, "ok", <<>>, 0, EmptyMap)
                /\ netLoad' = MapPut(netLoad, address, 0)
                /\ UNCHANGED <<replicaNum, hashFunc, totalLoad, mu>>
    /\ UNCHANGED <<pc, frame, calls>>

\* fault: UnregisterHost without the test of ch.hostMap
UnregisterHostUnchecked(address) ==
    /\ Quiescent
    /\ IF ~CanLock
       THEN /\ mu' = LockBlocked
            /\ last' = Ended("UnregisterHost", address, "blocked", <<>>, 0, EmptyMap)
            /\ UNCHANGED <<ring, netLoad>>
       ELSE LET r == delReplicas([map |-> replicaHostMap, seq |-> sortedHostHashSet],
                                 address, 0)
            IN  /\ hostMap' = MapDelete(hostMap, address)
                /\ replicaHostMap' = r.map
                /\ sortedHostHashSet' = r.seq
                /\ last' = Ended("UnregisterHost", address, "ok", <<>>, 0, EmptyMap)
                /\ netLoad' = MapDelete(netLoad, address)
                /\ UNCHANGED <<replicaNum, hashFunc, totalLoad, mu>>
    /\ UNCHANGED <<pc, frame, calls>>

UnregisterHost(address) ==
    /\ Quiescent
    /\ IF ~CanLock
       THEN /\ mu' = LockBlocked
            /\ last' = Ended("UnregisterHost", address, "blocked", <<>>, 0, EmptyMap)
            /\ UNCHANGED <<ring, netLoad>>
       ELSE IF address \notin DOMAIN hostMap
       THEN /\ last' = Ended("UnregisterHost", address, "ErrHostNotFound",
                             <<>>, 0, EmptyMap)
            /\ UNCHANGED <<ring, mu, netLoad>>
       ELSE LET r == delReplicas([map |-> replicaHostMap, seq |-> sortedHostHashSet],
                                 address, 0)
            IN  /\ hostMap' = MapDelete(hostMap, address)
                /\ replicaHostMap' = r.map
                /\ sortedHostHashSet' = r.seq
                /\ last' = Ended("UnregisterHost", address, "ok", <<>>, 0, EmptyMap)
                /\ netLoad' = MapDelete(netLoad, address)
                /\ UNCHANGED <<replicaNum, hashFunc, totalLoad, mu>>
    /\ UNCHANGED <<pc, frame, calls>>

\* fault: GetHostByKey passes over the hosts without headroom, as
\* GetHostByKeyLeast does
getHostByKeyBounded(seq, map, key) ==
    LET idx == searchIndex(seq, Hash(key))
    IN  IF idx >= Len(seq)
        THEN [out |-> "panic", ret |-> <<>>]
        ELSE LET res == probe(totalLoad, hostMap, map, seq, idx, 0)
             IN  [out |-> res.out, ret |-> res.ret]

\* the body of GetHostByKey on the ring (seq, map): it does not look at the
\* number of hosts, and seq[idx] panics (index out of range) on an empty ring
getHostByKey(seq, map, key) ==
    LET idx == searchIndex(seq, Hash(key))
    IN  IF idx >= Len(seq)
        THEN [out |-> "panic", ret |-> <<>>]
        ELSE [out |-> "ok", ret |-> MapGetString(map, At(seq, idx))]

\* GetHostByKey takes no lock
GetHostByKey(key) ==
    /\ Quiescent
    /\ LET res == getHostByKey(sortedHostHashSet, replicaHostMap, key)
       IN  last' = Ended("GetHostByKey", key, res.out, res.ret, 0, EmptyMap)
    /\ UNCHANGED <<ring, mu, pc, frame, calls, netLoad>>

\* GetHostByKeyLeast takes a read lock and, on every return, a second one
\* (defer ch.mu.RLock()); it releases neither
GetHostByKeyLeast(key) ==
    /\ Quiescent
    /\ IF ~CanRLock
       THEN /\ last' = Ended("GetHostByKeyLeast", key, "blocked", <<>>, 0, EmptyMap)
            /\ UNCHANGED <<ring, mu>>
       ELSE /\ mu.readers + 2 <= MaxReaders
            /\ IF Cardinality(DOMAIN replicaHostMap) = 0
               THEN /\ last' = Ended("GetHostByKeyLeast", key, "ErrHostNotFound",
                                     <<>>, 0, EmptyMap)
                    /\ mu' = [mu EXCEPT !.readers = @ + 2]
                    /\ UNCHANGED ring
               ELSE LET idx == searchIndex(sortedHostHashSet, Hash(key))
                        res == probe(totalLoad, hostMap, replicaHostMap,
                                     sortedHostHashSet, idx, 0)
                    IN  /\ last' = Ended("GetHostByKeyLeast", key, res.out, res.ret,
                                         0, EmptyMap)
                        \* a call that loops holds the one read lock for ever
                        /\ mu' = [mu EXCEPT !.readers =
                                      IF res.out = "loops" THEN @ + 1 ELSE @ + 2]
                        \* checkLoadCapacity ran unless the first read of
                        \* the ring was out of range
                        /\ totalLoad' = IF idx >= Len(sortedHostHashSet)
                                        THEN totalLoad
                                        ELSE clampTotalLoad(totalLoad)
                        /\ UNCHANGED <<replicaNum, hashFunc, hostMap, replicaHostMap,
                                       sortedHostHashSet>>
    /\ UNCHANGED <<pc, frame, calls, netLoad>>

\* MaxLoad takes no lock; it writes totalLoad and divides by the number of
\* hosts (a run-time panic when there is none)
MaxLoad ==
    /\ Quiescent
    /\ totalLoad' = bumpTotalLoad(totalLoad)
    /\ IF Cardinality(DOMAIN hostMap) = 0
       THEN last' = Ended("MaxLoad", <<>>, "panic", <<>>, 0, EmptyMap)
       ELSE last' = Ended("MaxLoad", <<>>, "ok", <<>>,
                          maxLoadValue(bumpTotalLoad(totalLoad),
                                       Cardinality(DOMAIN hostMap)),
                          EmptyMap)
    /\ UNCHANGED <<replicaNum, hashFunc, hostMap, replicaHostMap, sortedHostHashSet,
                   mu, pc, frame, calls, netLoad>>

\* IncLoad and DecLoad add delta to the host's LoadBound and to totalLoad
\* under the write lock; ch.hostMap[address] is a nil *Host for an address
\* that is not registered, and &nil.LoadBound panics (the deferred Unlock
\* runs)
AddLoad(op, address, delta) ==
    /\ Quiescent
    /\ IF ~CanLock
       THEN /\ mu' = LockBlocked
            /\ last' = Ended(op, address, "blocked", <<>>, 0, EmptyMap)
            /\ UNCHANGED <<ring, netLoad>>
       ELSE IF address \notin DOMAIN hostMap
       THEN /\ last' = Ended(op, address, "panic", <<>>, 0, EmptyMap)
            /\ UNCHANGED <<ring, mu, netLoad>>
       ELSE /\ hostMap[address] + delta \in (-MaxDeficit)..MaxLoadBound
            /\ totalLoad + delta \in (-MaxTotalLoad)..MaxTotalLoad
            /\ hostMap' = [hostMap EXCEPT ![address] = @ + delta]
            /\ totalLoad' = totalLoad + delta
            /\ netLoad' = [netLoad EXCEPT ![address] = @ + delta]
            /\ last' = Ended(op, address, "ok", <<>>, 0, EmptyMap)
            /\ UNCHANGED <<replicaNum, hashFunc, replicaHostMap, sortedHostHashSet, mu>>
    /\ UNCHANGED <<pc, frame, calls>>

IncLoad(address) == AddLoad("IncLoad", address, 1)

DecLoad(address) == AddLoad("DecLoad", address, -1)

\* GetLoads takes the read lock, copies every LoadBound and releases the lock
GetLoads ==
    /\ Quiescent
    /\ IF ~CanRLock
       THEN last' = Ended("GetLoads", <<>>, "blocked", <<>>, 0, EmptyMap)
       ELSE last' = Ended("GetLoads", <<>>, "ok", <<>>, 0, hostMap)
    /\ UNCHANGED <<ring, mu, pc, frame, calls, netLoad>>

Next ==
    \/ \E address \in Addresses : RegisterHost(address)
    \/ \E address \in Addresses : UnregisterHost(address)
    \/ \E key \in Keys : GetHostByKey(key)
    \/ \E key \in Keys : GetHostByKeyLeast(key)
    \/ MaxLoad
    \/ \E address \in Addresses : IncLoad(address)
    \/ \E address \in Addresses : DecLoad(address)
    \/ GetLoads

Spec == Init /\ [][Next]_vars

-----------------------------------------------------------------------------
(* The same operations called from several goroutines: every call is a      *)
(* sequence of steps, and the steps of different goroutines interleave.     *)
(* A step is one lock operation or one statement (one loop iteration) of    *)
(* the operation's body.                                                    *)

\* the addresses and keys the concurrent callers use
ConcAddresses == {<<"a">>, <<"b">>}
ConcKeys == {<<"k">>, <<"a", "0">>}

\* the locals of a call: its operation and argument, the loop counter i,
\* the index idx, what it has read of the ring (seq as searchIndex read
\* ch.sortedHostHashSet, seq2 as the indexing read it, map as it read
\* ch.replicaHostMap), and its result
Frame(op, arg) ==
    [op |-> op, arg |-> arg, i |-> 0, idx |-> 0, seq |-> <<>>, seq2 |-> <<>>,
     map |-> EmptyMap, out |-> "ok", ret |-> <<>>, loads |-> EmptyMap]

\* the ring after RegisterHost of the first n addresses of a list, called
\* one after the other on a new ring
RECURSIVE RegisteredRing(_, _)
RegisteredRing(list, n) ==
    IF n = 0 THEN [map |-> EmptyMap, seq |-> <<>>]
    ELSE LET r == addReplicas(RegisteredRing(list, n - 1), list[n], 0)
         IN  [map |-> r.map, seq |-> SortSlice(r.seq)]

\* the concurrent calls start on a ring on which none, one or both of the
\* addresses have been registered, with no load reported yet
InitConc ==
    /\ replicaNum = MaxReplicaNum
    /\ hashFunc \in HashFuncs
    /\ totalLoad = 0
    /\ \E n \in 0..2 :
           /\ hostMap = [address \in {<<<<"a">>, <<"b">>>>[j] : j \in 1..n} |-> 0]
           /\ replicaHostMap = RegisteredRing(<<<<"a">>, <<"b">>>>, n).map
           /\ sortedHostHashSet = RegisteredRing(<<<<"a">>, <<"b">>>>, n).seq
    /\ mu = [readers |-> 0, writer |-> FALSE]
    /\ last = Ended("NewConsistent", <<>>, "ok", <<>>, 0, EmptyMap)
    /\ pc = [t \in Threads |-> "idle"]
    /\ frame = [t \in Threads |-> NoFrame]
    /\ calls = 0
    /\ netLoad = hostMap

Goto(t, label) == pc' = [pc EXCEPT ![t] = label]

\* the call returns (or its panic leaves the function)
Return(t) ==
    /\ last' = Ended(frame[t].op, frame[t].arg, frame[t].out, frame[t].ret, 0,
                     frame[t].loads)
    /\ pc' = [pc EXCEPT ![t] = "idle"]
    /\ frame' = [frame EXCEPT ![t] = NoFrame]

\* a goroutine starts a call
CallRegisterHost(t, address) ==
    /\ pc[t] = "idle"
    /\ calls < MaxCalls
    /\ calls' = calls + 1
    /\ UNCHANGED netLoad
    /\ frame' = [frame EXCEPT ![t] = Frame("RegisterHost", address)]
    /\ Goto(t, "Lock")
    /\ UNCHANGED <<ring, mu, last>>

CallUnregisterHost(t, address) ==
    /\ pc[t] = "idle"
    /\ calls < MaxCalls
    /\ calls' = calls + 1
    /\ UNCHANGED netLoad
    /\ frame' = [frame EXCEPT ![t] = Frame("UnregisterHost", address)]
    /\ Goto(t, "Lock")
    /\ UNCHANGED <<ring, mu, last>>

CallAddLoad(t, op, address, delta) ==
    /\ pc[t] = "idle"
    /\ calls < MaxCalls
    /\ calls' = calls + 1
    /\ UNCHANGED netLoad
    /\ address \in DOMAIN hostMap =>
           /\ hostMap[address] + delta \in (-MaxDeficit)..MaxLoadBound
           /\ totalLoad + delta \in (-MaxTotalLoad)..MaxTotalLoad
    /\ frame' = [frame EXCEPT ![t] = Frame(op, address)]
    /\ Goto(t, "Lock")
    /\ UNCHANGED <<ring, mu, last>>

CallGetLoads(t) ==
    /\ pc[t] = "idle"
    /\ calls < MaxCalls
    /\ calls' = calls + 1
    /\ UNCHANGED netLoad
    /\ frame' = [frame EXCEPT ![t] = Frame("GetLoads", <<>>)]
    /\ Goto(t, "RLock")
    /\ UNCHANGED <<ring, mu, last>>

CallGetHostByKey(t, key) ==
    /\ pc[t] = "idle"
    /\ calls < MaxCalls
    /\ calls' = calls + 1
    /\ UNCHANGED netLoad
    /\ frame' = [frame EXCEPT ![t] = Frame("GetHostByKey", key)]
    /\ Goto(t, "Search")
    /\ UNCHANGED <<ring, mu, last>>

CallGetHostByKeyLeast(t, key) ==
    /\ pc[t] = "idle"
    /\ calls < MaxCalls
    /\ calls' = calls + 1
    /\ UNCHANGED netLoad
    /\ mu.readers + 2 <= MaxReaders
    /\ frame' = [frame EXCEPT ![t] = Frame("GetHostByKeyLeast", key)]
    /\ Goto(t, "RLock")
    /\ UNCHANGED <<ring, mu, last>>

\* ch.mu.Lock(): the writer announces itself, then waits for the readers
Lock(t) ==
    /\ pc[t] = "Lock"
    /\ ~mu.writer
    /\ mu' = [mu EXCEPT !.writer = TRUE]
    /\ Goto(t, "LockWait")
    /\ UNCHANGED <<calls, netLoad, ring, last, frame>>

LockWait(t) ==
    /\ pc[t] = "LockWait"
    /\ mu.readers = 0
    /\ Goto(t, CASE frame[t].op = "RegisterHost" -> "RegCheck"
                 [] frame[t].op = "UnregisterHost" -> "UnregCheck"
                 [] OTHER -> "AddHost")
    /\ UNCHANGED <<calls, netLoad, ring, mu, last, frame>>

\* the deferred ch.mu.Unlock(), then the return
Unlock(t) ==
    /\ pc[t] = "Unlock"
    /\ mu' = [mu EXCEPT !.writer = FALSE]
    /\ Return(t)
    /\ netLoad' = IF frame[t].op \in {"IncLoad", "DecLoad"} /\ frame[t].out = "ok"
                  THEN [netLoad EXCEPT ![frame[t].arg] =
                            @ + (IF frame[t].op = "IncLoad" THEN 1 ELSE -1)]
                  ELSE netLoad
    /\ UNCHANGED <<ring, calls>>

\* ch.mu.RLock() at the start of GetLoads and of GetHostByKeyLeast
RLock(t) ==
    /\ pc[t] = "RLock"
    /\ ~mu.writer
    /\ mu' = [mu EXCEPT !.readers = @ + 1]
    /\ Goto(t, IF frame[t].op = "GetLoads" THEN "Snapshot" ELSE "Probe")
    /\ UNCHANGED <<calls, netLoad, ring, last, frame>>

\* the deferred ch.mu.RUnlock() of GetLoads, then the return
RUnlock(t) ==
    /\ pc[t] = "RUnlock"
    /\ mu' = [mu EXCEPT !.readers = @ - 1]
    /\ Return(t)
    /\ UNCHANGED <<ring, calls, netLoad>>

\* RegisterHost: the test of ch.hostMap and the new Host
RegCheck(t) ==
    /\ pc[t] = "RegCheck"
    /\ IF frame[t].arg \in DOMAIN hostMap
       THEN /\ frame' = [frame EXCEPT ![t].out = "ErrHostAlreadyExists"]
            /\ Goto(t, "Unlock")
            /\ UNCHANGED <<hostMap, netLoad>>
       ELSE /\ hostMap' = MapPut(hostMap, frame[t].arg, 0)
            /\ netLoad' = MapPut(netLoad, frame[t].arg, 0)
            /\ Goto(t, "RegLoop")
            /\ UNCHANGED frame
    /\ UNCHANGED <<calls, replicaNum, hashFunc, totalLoad, replicaHostMap, sortedHostHashSet,
                   mu, last>>

\* RegisterHost: one iteration of the loop that adds the virtual nodes
RegLoop(t) ==
    /\ pc[t] = "RegLoop"
    /\ LET r == addReplica([map |-> replicaHostMap, seq |-> sortedHostHashSet],
                           frame[t].arg, frame[t].i)
       IN  /\ replicaHostMap' = r.map
           /\ sortedHostHashSet' = r.seq
    /\ frame' = [frame EXCEPT ![t].i = @ + 1]
    /\ Goto(t, IF frame[t].i + 1 < replicaNum THEN "RegLoop" ELSE "RegSort")
    /\ UNCHANGED <<calls, netLoad, replicaNum, hashFunc, totalLoad, hostMap, mu, last>>

\* RegisterHost: sort.Slice
RegSort(t) ==
    /\ pc[t] = "RegSort"
    /\ sortedHostHashSet' = SortSlice(sortedHostHashSet)
    /\ Goto(t, "Unlock")
    /\ UNCHANGED <<calls, netLoad, replicaNum, hashFunc, totalLoad, hostMap, replicaHostMap, mu, last,
                   frame>>

\* UnregisterHost: the test of ch.hostMap and the delete
UnregCheck(t) ==
    /\ pc[t] = "UnregCheck"
    /\ IF frame[t].arg \notin DOMAIN hostMap
       THEN /\ frame' = [frame EXCEPT ![t].out = "ErrHostNotFound"]
            /\ Goto(t, "Unlock")
            /\ UNCHANGED <<hostMap, netLoad>>
       ELSE /\ hostMap' = MapDelete(hostMap, frame[t].arg)
            /\ netLoad' = MapDelete(netLoad, frame[t].arg)
            /\ Goto(t, "UnregLoop")
            /\ UNCHANGED frame
    /\ UNCHANGED <<calls, replicaNum, hashFunc, totalLoad, replicaHostMap, sortedHostHashSet,
                   mu, last>>

\* UnregisterHost: one iteration of the loop that removes the virtual nodes
UnregLoop(t) ==
    /\ pc[t] = "UnregLoop"
    /\ LET r == delReplica([map |-> replicaHostMap, seq |-> sortedHostHashSet],
                           frame[t].arg, frame[t].i)
       IN  /\ replicaHostMap' = r.map
           /\ sortedHostHashSet' = r.seq
    /\ frame' = [frame EXCEPT ![t].i = @ + 1]
    /\ Goto(t, IF frame[t].i + 1 < replicaNum THEN "UnregLoop" ELSE "Unlock")
    /\ UNCHANGED <<calls, netLoad, replicaNum, hashFunc, totalLoad, hostMap, mu, last>>

\* IncLoad, DecLoad: atomic.AddInt64(&ch.hostMap[address].LoadBound, +-1)
AddHost(t) ==
    /\ pc[t] = "AddHost"
    /\ IF frame[t].arg \notin DOMAIN hostMap
       THEN /\ frame' = [frame EXCEPT ![t].out = "panic"]
            /\ Goto(t, "Unlock")
            /\ UNCHANGED hostMap
       ELSE /\ hostMap' = [hostMap EXCEPT ![frame[t].arg] =
                               @ + (IF frame[t].op = "IncLoad" THEN 1 ELSE -1)]
            /\ Goto(t, "AddTotal")
            /\ UNCHANGED frame
    /\ UNCHANGED <<calls, netLoad, replicaNum, hashFunc, totalLoad, replicaHostMap, sortedHostHashSet,
                   mu, last>>

\* fault: the addition to ch.totalLoad is lost
AddTotalLost(t) ==
    /\ pc[t] = "AddTotal"
    /\ Goto(t, "Unlock")
    /\ UNCHANGED <<calls, netLoad, ring, mu, last, frame>>

\* IncLoad, DecLoad: atomic.AddInt64(&ch.totalLoad, +-1)
AddTotal(t) ==
    /\ pc[t] = "AddTotal"
    /\ totalLoad' = totalLoad + (IF frame[t].op = "IncLoad" THEN 1 ELSE -1)
    /\ Goto(t, "Unlock")
    /\ UNCHANGED <<calls, netLoad, replicaNum, hashFunc, hostMap, replicaHostMap, sortedHostHashSet,
                   mu, last, frame>>

\* GetLoads: the copy of every LoadBound, made under the read lock
Snapshot(t) ==
    /\ pc[t] = "Snapshot"
    /\ frame' = [frame EXCEPT ![t].loads = hostMap]
    /\ Goto(t, "RUnlock")
    /\ UNCHANGED <<calls, netLoad, ring, mu, last>>

\* GetHostByKey: idx := ch.searchIndex(hashedIdx), with no lock held
Search(t) ==
    /\ pc[t] = "Search"
    /\ frame' = [frame EXCEPT ![t].idx = searchIndex(sortedHostHashSet, Hash(frame[t].arg)),
                              ![t].seq = sortedHostHashSet]
    /\ Goto(t, "Read")
    /\ UNCHANGED <<calls, netLoad, ring, mu, last>>

\* GetHostByKey: ch.replicaHostMap[ch.sortedHostHashSet[idx]], with no lock held
Read(t) ==
    /\ pc[t] = "Read"
    /\ frame' = [frame EXCEPT
                    ![t].seq2 = sortedHostHashSet,
                    ![t].map = replicaHostMap,
                    ![t].out = IF frame[t].idx >= Len(sortedHostHashSet)
                               THEN "panic" ELSE "ok",
                    ![t].ret = IF frame[t].idx >= Len(sortedHostHashSet)
                               THEN <<>>
                               ELSE MapGetString(replicaHostMap,
                                                 At(sortedHostHashSet, frame[t].idx))]
    /\ Goto(t, "Return")
    /\ UNCHANGED <<calls, netLoad, ring, mu, last>>

ReturnKey(t) ==
    /\ pc[t] = "Return"
    /\ Return(t)
    /\ UNCHANGED <<calls, netLoad, ring, mu>>

\* GetHostByKeyLeast: the body, run under the read lock
Probe(t) ==
    /\ pc[t] = "Probe"
    /\ IF Cardinality(DOMAIN replicaHostMap) = 0
       THEN /\ frame' = [frame EXCEPT ![t].out = "ErrHostNotFound"]
            /\ Goto(t, "DeferRLock")
            /\ UNCHANGED totalLoad
       ELSE LET idx == searchIndex(sortedHostHashSet, Hash(frame[t].arg))
                res == probe(totalLoad, hostMap, replicaHostMap, sortedHostHashSet,
                             idx, 0)
            IN  /\ frame' = [frame EXCEPT ![t].idx = idx,
                                          ![t].seq = sortedHostHashSet,
                                          ![t].seq2 = sortedHostHashSet,
                                          ![t].map = replicaHostMap,
                                          ![t].out = res.out,
                                          ![t].ret = res.ret]
                /\ totalLoad' = IF idx >= Len(sortedHostHashSet)
                                THEN totalLoad
                                ELSE clampTotalLoad(totalLoad)
                /\ Goto(t, IF res.out = "loops" THEN "Spin" ELSE "DeferRLock")
    /\ UNCHANGED <<calls, netLoad, replicaNum, hashFunc, hostMap, replicaHostMap, sortedHostHashSet,
                   mu, last>>

\* GetHostByKeyLeast: defer ch.mu.RLock() takes a second read lock, then
\* the call returns
DeferRLock(t) ==
    /\ pc[t] = "DeferRLock"
    /\ ~mu.writer
    /\ mu' = [mu EXCEPT !.readers = @ + 1]
    /\ Return(t)
    /\ UNCHANGED <<ring, calls, netLoad>>

\* a goroutine starts a call
Call(t) ==
    \/ \E address \in ConcAddresses : CallRegisterHost(t, address)
    \/ \E address \in ConcAddresses : CallUnregisterHost(t, address)
    \/ \E address \in ConcAddresses : CallAddLoad(t, "IncLoad", address, 1)
    \/ \E address \in ConcAddresses : CallAddLoad(t, "DecLoad", address, -1)
    \/ CallGetLoads(t)
    \/ \E key \in ConcKeys : CallGetHostByKey(t, key)
    \/ \E key \in ConcKeys : CallGetHostByKeyLeast(t, key)

\* a goroutine takes the next step of the call it is in
Step(t) ==
    \/ Lock(t) \/ LockWait(t) \/ Unlock(t) \/ RLock(t) \/ RUnlock(t)
    \/ RegCheck(t) \/ RegLoop(t) \/ RegSort(t)
    \/ UnregCheck(t) \/ UnregLoop(t)
    \/ AddHost(t) \/ AddTotal(t)
    \/ Snapshot(t)
    \/ Search(t) \/ Read(t) \/ ReturnKey(t)
    \/ Probe(t) \/ DeferRLock(t)

NextConc == \E t \in Threads : Call(t) \/ Step(t)

SpecConc == InitConc /\ [][NextConc]_vars

-----------------------------------------------------------------------------
(* IncLoad, DecLoad and GetLoads called from several goroutines on a ring   *)
(* whose hosts stay as they are: both addresses registered, no load yet     *)

InitLoads ==
    /\ InitConc
    /\ DOMAIN hostMap = ConcAddresses

NextLoads ==
    \E t \in Threads :
        \/ \E address \in ConcAddresses : CallAddLoad(t, "IncLoad", address, 1)
        \/ \E address \in ConcAddresses : CallAddLoad(t, "DecLoad", address, -1)
        \/ CallGetLoads(t)
        \/ Lock(t) \/ LockWait(t) \/ AddHost(t) \/ AddTotal(t) \/ Unlock(t)
        \/ RLock(t) \/ Snapshot(t) \/ RUnlock(t)

SpecLoads == InitLoads /\ [][NextLoads]_vars

-----------------------------------------------------------------------------
(* What the properties speak of, stated without the ring's own structures   *)

\* the registered hosts
Hosts == DOMAIN hostMap

\* the position of virtual node i of a host
PositionOf(address, i) == Hash(hostReplicaFormat(address, i))

\* the positions of the virtual nodes of a set of hosts
PositionsOf(H) == {PositionOf(a, i) : a \in H, i \in 0..(replicaNum - 1)}

\* the hosts of H that own position p
OwnersIn(H, p) == {a \in H : \E i \in 0..(replicaNum - 1) : PositionOf(a, i) = p}

Range(s) == {s[j] : j \in 1..Len(s)}

StrictlyAscending(s) == \A j \in 1..(Len(s) - 1) : s[j] < s[j + 1]

\* the position the key is routed to in the ascending sequence s: the first
\* one at or after the key's hash, the one at index 0 when there is none
RoutedPosition(s, key) ==
    LET atOrAfter == {j \in 1..Len(s) : s[j] >= Hash(key)}
    IN  IF atOrAfter = {} THEN s[1]
        ELSE s[CHOOSE j \in atOrAfter : \A m \in atOrAfter : j <= m]

\* the result of a GetHostByKey(key) call made in the current state
Lookup(key) == getHostByKey(sortedHostHashSet, replicaHostMap, key).ret

RECURSIVE SumOf(_, _)
SumOf(f, S) ==
    IF S = {} THEN 0
    ELSE LET x == CHOOSE y \in S : TRUE
         IN  f[x] + SumOf(f, S \ {x})

\* the ceiling of the quotient num / den of integers, den > 0
CeilDiv(num, den) == -((-num) \div den)

-----------------------------------------------------------------------------
(* Properties of the operations called one at a time (Spec)                 *)

\* C1: on a ring with at least one host, GetHostByKey(key) returns the host
\* that owns the first position of the ascending sequence that is >=
\* hashFunc(key), and the owner of the position at index 0 when the hash is
\* larger than every position.
C1_GetHostByKeyResult ==
    (last.op = "GetHostByKey" /\ Hosts # {}) =>
        /\ last.out = "ok"
        /\ OwnersIn(Hosts, RoutedPosition(sortedHostHashSet, last.arg)) = {last.ret}

\* a lookup that wrapped around: two hosts or more, the key's hash above
\* every position
C1_Witness ==
    /\ last.op = "GetHostByKey"
    /\ last.out = "ok"
    /\ Cardinality(Hosts) >= 2
    /\ \A j \in 1..Len(sortedHostHashSet) : sortedHostHashSet[j] < Hash(last.arg)
    /\ last.ret \in Hosts

\* C2: a host that GetHostByKeyLeast returns passes the headroom check with
\* the ceiling computed by real-number division:
\* loadBound + 1 <= ceil(((totalLoad + 1) / hostCount) * 1.25), and
\* ((t + 1) / n) * 1.25 = 5 * (t + 1) / (4 * n).
C2_HeadroomRealDivision ==
    (last.op = "GetHostByKeyLeast" /\ last.out = "ok" /\ last.ret \in Hosts) =>
        hostMap[last.ret] + 1 <= CeilDiv(5 * (totalLoad + 1), 4 * Cardinality(Hosts))

\* C3: an UnregisterHost(r) that succeeds on a ring with at least two hosts
\* leaves every key that did not resolve to r with the host it had.
C3_MinimalDisruption ==
    [][(/\ last'.op = "UnregisterHost"
        /\ last'.out = "ok"
        /\ Cardinality(Hosts) >= 2)
       => \A key \in Keys : Lookup(key) # last'.arg => Lookup(key)' = Lookup(key)]_vars

\* the ring before the last UnregisterHost: the current one with the virtual
\* nodes of the host that left
RingBeforeUnregister ==
    LET r == addReplicas([map |-> replicaHostMap, seq |-> sortedHostHashSet], last.arg, 0)
    IN  [map |-> r.map, seq |-> SortSlice(r.seq)]

\* after a host left a ring of three: one key resolved to it and now has
\* another host, another key resolved to a host that stayed
C3_Witness ==
    /\ last.op = "UnregisterHost"
    /\ last.out = "ok"
    /\ Cardinality(Hosts) = 2
    /\ \E k1, k2 \in Keys :
          LET before == RingBeforeUnregister
          IN  /\ getHostByKey(before.seq, before.map, k1).ret = last.arg
              /\ Lookup(k1) \in Hosts
              /\ getHostByKey(before.seq, before.map, k2).ret \in Hosts
              /\ Lookup(k2) = getHostByKey(before.seq, before.map, k2).ret

\* C4: on a ring with no host, GetHostByKey and GetHostByKeyLeast return
\* ErrHostNotFound (and do not panic).
C4_EmptyRingHostNotFound ==
    (last.op \in {"GetHostByKey", "GetHostByKeyLeast"} /\ Hosts = {}) =>
        last.out = "ErrHostNotFound"

\* C5: a RegisterHost call for a registered address that returns, returns
\* ErrHostAlreadyExists and leaves the hosts, their loads, totalLoad, the
\* position map and the position sequence as they were.
C5_RegisterTwice ==
    [][(/\ last'.op = "RegisterHost"
        /\ last'.arg \in Hosts
        /\ last'.out # "blocked")
       => (last'.out = "ErrHostAlreadyExists" /\ UNCHANGED ring)]_vars

\* a second registration was refused on a ring with a load and two hosts
C5_Witness ==
    /\ last.op = "RegisterHost"
    /\ last.out = "ErrHostAlreadyExists"
    /\ Cardinality(Hosts) >= 2
    /\ hostMap[last.arg] > 0

\* C6: an UnregisterHost call for an address that is not registered that
\* returns, returns ErrHostNotFound and leaves the hosts, their loads,
\* totalLoad, the position map and the position sequence as they were.
C6_UnregisterUnknown ==
    [][(/\ last'.op = "UnregisterHost"
        /\ last'.arg \notin Hosts
        /\ last'.out # "blocked")
       => (last'.out = "ErrHostNotFound" /\ UNCHANGED ring)]_vars

\* an address was unregistered a second time while other hosts stayed
C6_Witness ==
    /\ last.op = "UnregisterHost"
    /\ last.out = "ErrHostNotFound"
    /\ Hosts # {}
    /\ totalLoad # 0

\* C7: between calls the position sequence is strictly ascending, has
\* hostCount * replicaNum entries and holds exactly the positions of the
\* virtual nodes of the registered hosts.
C7_RingIsSortedUnion ==
    /\ StrictlyAscending(sortedHostHashSet)
    /\ Len(sortedHostHashSet) = Cardinality(Hosts) * replicaNum
    /\ Range(sortedHostHashSet) = PositionsOf(Hosts)

\* two hosts with two virtual nodes each are left after a third host was
\* unregistered
C7_Witness ==
    /\ last.op = "UnregisterHost"
    /\ last.out = "ok"
    /\ Cardinality(Hosts) = 2
    /\ replicaNum >= 2

\* C8: between calls totalLoad is the sum of the LoadBound of the
\* registered hosts.
C8_TotalLoadIsSum == totalLoad = SumOf(hostMap, Hosts)

-----------------------------------------------------------------------------
(* Properties of calls made from several goroutines (SpecConc)              *)

\* C9: every call that has started returns.  A call returns by taking its
\* steps, and the steps of a call are only ever enabled by the steps of
\* calls in progress (a lock is released by the call that took it), so:
\* while calls are in progress, one of them can take a step.
C9_StartedCallsProceed ==
    (\E t \in Threads : pc[t] # "idle") => (\E t \in Threads : ENABLED Step(t))

\* (seq, map) is the whole ring of some set of hosts: seq ascending, and seq
\* and map holding exactly the virtual nodes of those hosts
CompleteRing(seq, map) ==
    \E H \in SUBSET Addresses :
        /\ StrictlyAscending(seq)
        /\ Len(seq) = Cardinality(H) * replicaNum
        /\ Range(seq) = PositionsOf(H)
        /\ DOMAIN map = PositionsOf(H)
        /\ \A p \in DOMAIN map : OwnersIn(H, p) = {map[p]}

\* the goroutine has made the reads of a lookup
HasRead(t) == pc[t] \in {"Return", "DeferRLock", "Spin"}

\* C10: what a GetHostByKey or GetHostByKeyLeast call has read of the ring
\* is one complete ring: the sequence it searched is the sequence it indexed,
\* and that sequence and the position map it read are the ring of one set of
\* hosts.
C10_LookupReadsOneRing ==
    \A t \in Threads :
        HasRead(t) =>
            /\ frame[t].seq2 = frame[t].seq
            /\ CompleteRing(frame[t].seq, frame[t].map)

-----------------------------------------------------------------------------
(* Further properties of the operations called one at a time (Spec)         *)

\* the host is registered and fails the capacity check of the current state
OverCeiling(address) ==
    /\ address \in Hosts
    /\ checkLoadCapacity(totalLoad, hostMap, address) = "false"

\* C11: on a ring with at least one host, a call other than RegisterHost and
\* UnregisterHost (IncLoad, DecLoad, GetLoads, GetHostByKey,
\* GetHostByKeyLeast, MaxLoad) leaves the host of every key as it was, and a
\* GetHostByKey(k) call returns that host: two GetHostByKey(k) calls with no
\* registration change between them return the same host.  (A call that
\* writes neither the ring nor the lock leaves every lookup as it was.)
C11_RoutingDeterministic ==
    [][(last'.op \notin {"RegisterHost", "UnregisterHost"} /\ Hosts # {})
       => /\ UNCHANGED <<ring, mu>> \/ \A key \in Keys : Lookup(key)' = Lookup(key)
          /\ last'.op = "GetHostByKey" =>
                 (last'.out = "ok" /\ last'.ret = Lookup(last'.arg))]_vars

\* a GetHostByKey call returned a host that has no headroom left, on a ring
\* of two hosts or more on which GetHostByKeyLeast has been called
C11_Witness ==
    /\ last.op = "GetHostByKey"
    /\ last.out = "ok"
    /\ Cardinality(Hosts) >= 2
    /\ OverCeiling(last.ret)
    /\ mu.readers > 0

\* C12: on a ring with at least two hosts, a GetHostByKeyLeast(k) call made
\* when the host that GetHostByKey(k) returns is over its ceiling
\* (loadBound + 1 > ceiling) returns a host, and a different one.
C12_OverloadedHostIsPassed ==
    (/\ last.op = "GetHostByKeyLeast"
     /\ last.out # "blocked"
     /\ Cardinality(Hosts) >= 2
     /\ OverCeiling(Lookup(last.arg)))
    => (last.out = "ok" /\ last.ret \in Hosts \ {Lookup(last.arg)})

\* C13: an IncLoad or DecLoad call for an address that is not registered
\* does not panic.
C13_UnknownAddressNoPanic ==
    (last.op \in {"IncLoad", "DecLoad"} /\ last.arg \notin Hosts) => last.out # "panic"

\* C15: between calls the position map has exactly replicaNum entries for
\* every registered host, no entry for an address that is not registered,
\* and the positions of the position sequence as its keys.
C15_PositionMapMatchesRing ==
    /\ \A a \in Hosts :
           Cardinality({p \in DOMAIN replicaHostMap : replicaHostMap[p] = a}) = replicaNum
    /\ \A p \in DOMAIN replicaHostMap : replicaHostMap[p] \in Hosts
    /\ DOMAIN replicaHostMap = Range(sortedHostHashSet)

\* one host with several virtual nodes is left after the others were
\* unregistered
C15_Witness ==
    /\ last.op = "UnregisterHost"
    /\ last.out = "ok"
    /\ Cardinality(Hosts) = 1
    /\ replicaNum >= 2
    /\ Cardinality(DOMAIN replicaHostMap) = replicaNum

\* C16: whenever a host is registered, some registered host passes the
\* capacity check, and a GetHostByKeyLeast call that has taken the lock
\* leaves its loop and returns a host.
C16_ProbeLoopTerminates ==
    Hosts # {} =>
        /\ \E a \in Hosts : checkLoadCapacity(totalLoad, hostMap, a) = "true"
        /\ (last.op = "GetHostByKeyLeast" /\ last.out # "blocked") =>
               (last.out = "ok" /\ last.ret \in Hosts)

\* the host is registered and passes the capacity check of the current state
HasHeadroom(address) ==
    /\ address \in Hosts
    /\ checkLoadCapacity(totalLoad, hostMap, address) = "true"

\* the index (from 0) of the position the key is routed to in the ascending
\* sequence s
RoutedIndex(s, key) ==
    LET atOrAfter == {j \in 1..Len(s) : s[j] >= Hash(key)}
    IN  IF atOrAfter = {} THEN 0
        ELSE (CHOOSE j \in atOrAfter : \A m \in atOrAfter : j <= m) - 1

\* the hosts that own the position d places after the one the key is routed
\* to, in ring order with wrap-around
OwnersAfter(key, d) ==
    OwnersIn(Hosts, At(sortedHostHashSet,
                       (RoutedIndex(sortedHostHashSet, key) + d) % Len(sortedHostHashSet)))

\* the number of places from the routed position to the first position
\* whose host has headroom
FirstHeadroom(key) ==
    LET ds == {d \in 0..(Len(sortedHostHashSet) - 1) :
                  \E a \in OwnersAfter(key, d) : HasHeadroom(a)}
    IN  CHOOSE d \in ds : \A e \in ds : d <= e

\* C17: when some registered host has headroom, a GetHostByKeyLeast(key) call
\* that has taken the lock returns the host of the first position, in ring
\* order from the position GetHostByKey(key) is routed to and with
\* wrap-around, whose host passes the capacity check; it returns the host of
\* GetHostByKey(key) when that host has headroom.
C17_FirstHostWithHeadroom ==
    (/\ last.op = "GetHostByKeyLeast"
     /\ last.out # "blocked"
     /\ \E a \in Hosts : HasHeadroom(a))
    => /\ last.out = "ok"
       /\ OwnersAfter(last.arg, FirstHeadroom(last.arg)) = {last.ret}
       /\ HasHeadroom(Lookup(last.arg)) => last.ret = Lookup(last.arg)

\* the key is routed to the last position of a ring of three hosts, its host
\* has no headroom, and the call went on from index 0 and passed a second
\* position without headroom
C17_Witness ==
    /\ last.op = "GetHostByKeyLeast"
    /\ last.out = "ok"
    /\ Cardinality(Hosts) = 3
    /\ RoutedIndex(sortedHostHashSet, last.arg) = Len(sortedHostHashSet) - 1
    /\ FirstHeadroom(last.arg) >= 2
    /\ OwnersAfter(last.arg, FirstHeadroom(last.arg)) = {last.ret}

\* C18: a GetHostByKeyLeast call leaves the hosts, their loads, totalLoad,
\* the position map and the position sequence as they were.
C18_GetHostByKeyLeastReadOnly ==
    [][last'.op = "GetHostByKeyLeast" => UNCHANGED ring]_vars

\* the map m without the positions of the virtual nodes of the address
WithoutPositionsOf(m, address) ==
    [p \in (DOMAIN m) \ PositionsOf({address}) |-> m[p]]

\* C20: a RegisterHost(a) call for an address that is not registered
\* succeeds, and the hosts, the position sequence and the position map
\* before it are those after it without a and the positions of a; an
\* UnregisterHost(a) call that follows it immediately succeeds and takes a,
\* the replicaNum positions of a and nothing else out of the three: they are
\* then as they were before the RegisterHost call.
C20_RegisterUnregisterRoundTrip ==
    [][/\ (last'.op = "RegisterHost" /\ last'.arg \notin Hosts /\ last'.out # "blocked")
          => /\ last'.out = "ok"
             /\ Hosts = Hosts' \ {last'.arg}
             /\ sortedHostHashSet =
                    SelectSeq(sortedHostHashSet',
                              LAMBDA p : p \notin PositionsOf({last'.arg}))
             /\ replicaHostMap = WithoutPositionsOf(replicaHostMap', last'.arg)
       /\ (/\ last.op = "RegisterHost"
           /\ last.out = "ok"
           /\ last'.op = "UnregisterHost"
           /\ last'.arg = last.arg
           /\ last'.out # "blocked")
          => /\ last'.out = "ok"
             /\ Hosts' = Hosts \ {last.arg}
             /\ Len(sortedHostHashSet') = Len(sortedHostHashSet) - replicaNum
             /\ sortedHostHashSet' =
                    SelectSeq(sortedHostHashSet,
                              LAMBDA p : p \notin PositionsOf({last.arg}))
             /\ replicaHostMap' = WithoutPositionsOf(replicaHostMap, last.arg)]_vars

\* a host with several virtual nodes has just been registered on a ring of
\* two other hosts, and the UnregisterHost call for it succeeds
C20_Witness ==
    /\ last.op = "RegisterHost"
    /\ last.out = "ok"
    /\ Cardinality(Hosts) = 3
    /\ replicaNum >= 2
    /\ ENABLED (UnregisterHost(last.arg) /\ last'.out = "ok")

-----------------------------------------------------------------------------
(* Properties of the load calls made from several goroutines (SpecLoads)    *)

\* an IncLoad or DecLoad call for the address has started and not returned
LoadCallInProgress(address) ==
    \E t \in Threads :
        /\ pc[t] # "idle"
        /\ frame[t].op \in {"IncLoad", "DecLoad"}
        /\ frame[t].arg = address

\* C14: after p IncLoad(a) and q DecLoad(a) calls from concurrent goroutines
\* have returned, with none in progress, the LoadBound of a has moved by
\* exactly p - q (from 0); with no load call in progress at all, totalLoad has
\* moved by the sum of these differences (from 0); the position sequence and
\* the position map are at every moment the ring of the two hosts.
C14_NoLostUpdate ==
    /\ \A a \in ConcAddresses : ~LoadCallInProgress(a) => hostMap[a] = netLoad[a]
    /\ (\A a \in ConcAddresses : ~LoadCallInProgress(a)) =>
           totalLoad = SumOf(netLoad, ConcAddresses)
    /\ sortedHostHashSet = RegisteredRing(<<<<"a">>, <<"b">>>>, 2).seq
    /\ replicaHostMap = RegisteredRing(<<<<"a">>, <<"b">>>>, 2).map

\* load calls on one host have returned and left it a load, while a call on
\* the other host is between its two additions and a third call waits for
\* the lock
C14_Witness ==
    \E t, u \in Threads, a \in ConcAddresses :
        /\ ~LoadCallInProgress(a)
        /\ netLoad[a] # 0
        /\ hostMap[a] = netLoad[a]
        /\ pc[t] = "AddTotal"
        /\ pc[u] \in {"Lock", "RLock"}

-----------------------------------------------------------------------------
(* Further properties of calls made from several goroutines (SpecConc)      *)

\* C19: an IncLoad or DecLoad call is not made to wait for the goroutines
\* that hold the read lock: once no other writer is ahead of it, it can go
\* on whatever the number of readers.
C19_LoadCallsPassReaders ==
    \A t \in Threads :
        (frame[t].op \in {"IncLoad", "DecLoad"} /\ pc[t] = "LockWait") =>
            ENABLED LockWait(t)

====
